---------------------------- MODULE Spec2Model ----------------------------
(***************************************************************************)
(* Model of src/libs/zbxdbcache/nextchecks.c: the sorted, de-duplicating   *)
(* array of pending item failures (DCadd_nextcheck) and the flush that     *)
(* turns it into one batched trigger update (DCflush_nextchecks).          *)
(*                                                                         *)
(* Array indices are those of the C code (0-based); the array itself is a  *)
(* TLA+ sequence, so C slot i is nextchecks[i + 1].                        *)
(***************************************************************************)
EXTENDS Integers, Sequences, FiniteSets, TLC

(***************************************************************************)
(* Bounds of the model and input domains.                                  *)
(***************************************************************************)
\* record calls (with a message) between two flushes
MaxCalls == 3
\* triggers the resolver may return for one batch
MaxTriggers == 2
\* stands for ZBX_MAX_SQL_SIZE of the DB layer, scaled down so that a batch
\* of MaxTriggers statements can overflow it
MaxSqlSize == 45
\* message copies lost (never freed, no longer referenced) that are counted
MaxLeaked == 1
\* record calls carrying a message, per flush, on the buffer near its capacity
MaxFillCalls == 2

ItemIds == {100, 200, 300}
Times == {1000, 1005}
NULL == "<NULL>"
\* no record call made yet, or a flush made since
NoItem == 0
Msgs == {"", "timeout", "connection refused"}
TriggerIds == 1..MaxTriggers
\* lengths of the statement text DBget_trigger_update_sql may append
StmtLens == {20, 40}

\* nextcheck_alloc += 64
AllocStep == 64
\* if (sql_offset > 16)
SqlBoilerplateMax == 16

VARIABLES
    nextchecks,         \* slots 0..nextcheck_num-1 of the static array
    nextcheck_alloc,    \* allocated slots
    nextcheck_num,      \* used slots
    oracle,             \* build flavour: HAVE_ORACLE defined or not
    pc,                 \* position of DCflush_nextchecks ("idle": no call active)
    itemids, timespecs, errors,     \* the three parallel arrays of the flush
    trigger_order,      \* trigger ids returned by the resolver, in its order
    i,                  \* loop index over trigger_order
    sql_offset,         \* bytes in the sql buffer
    sql_stmts,          \* trigger ids whose statement is in the sql buffer
    held,               \* resources the running flush holds
    hist,               \* record calls carrying a message since the initial state
                        \* or since flush was last entered
    last,               \* the API call made last
    log,                \* collaborator calls and array writes of the call made last
    submitted,          \* batches executed against the store by the call made last
    msgs_live,          \* copies made by zbx_strdup and not freed
    reported,           \* what the flush made last handed back to its caller
    called              \* the itemid given to the record call made last, if any

vars == <<nextchecks, nextcheck_alloc, nextcheck_num, oracle, pc, itemids,
          timespecs, errors, trigger_order, i, sql_offset, sql_stmts, held,
          hist, last, log, submitted, msgs_live, reported, called>>

buffer == <<nextchecks, nextcheck_alloc, nextcheck_num>>
flushLocals == <<itemids, timespecs, errors, trigger_order, i, sql_offset,
                 sql_stmts, held>>

(***************************************************************************)
(* get_nearestindex (zbxcommon): binary search over the first field of the *)
(* array; the index of the element with this id, or of the slot where it   *)
(* belongs.                                                                *)
(***************************************************************************)
RECURSIVE NearestFrom(_, _, _, _)
NearestFrom(a, first_index, last_index, id) ==
    LET index == first_index + (last_index - first_index) \div 2
        element_id == a[index + 1].itemid
    IN  IF id = element_id THEN index
        ELSE IF last_index = first_index
             THEN (IF element_id < id THEN index + 1 ELSE index)
        ELSE IF element_id < id
             THEN NearestFrom(a, index + 1, last_index, id)
             ELSE NearestFrom(a, first_index, index, id)

get_nearestindex(a, num, id) ==
    IF num = 0 THEN 0 ELSE NearestFrom(a, 0, num - 1, id)

(***************************************************************************)
(* DCadd_nextcheck                                                         *)
(***************************************************************************)
\* faulty variants: the check left out; an empty string taken for no message
MsgAbsent_Never(error_msg) == FALSE
MsgAbsent_OrEmpty(error_msg) == error_msg = NULL \/ error_msg = ""

\* if (NULL == error_msg) return;
MsgAbsent(error_msg) == error_msg = NULL

\* faulty variant: the wrong field compared with the id
ItemExists_WrongField(a, num, k, itemid) == k < num /\ a[k + 1].now = itemid

\* i < nextcheck_num && nextchecks[i].itemid == itemid
ItemExists(a, num, k, itemid) == k < num /\ a[k + 1].itemid = itemid

\* faulty variant: <= for <
StoredIsOlder_OrSame(a, k, now) == a[k + 1].now <= now

\* nextchecks[i].now < now
StoredIsOlder(a, k, now) == a[k + 1].now < now

\* faulty variant: the first entry is removed, whichever is replaced
DeleteItem_First(a, num, k) == SubSeq(a, 2, num)

\* memmove(&nextchecks[i], &nextchecks[i + 1], ...): the array after the delete
DeleteItem(a, num, k) == SubSeq(a, 1, k) \o SubSeq(a, k + 2, num)

\* faulty variant: the tail is not shifted, the entry goes to slot num
InsertItem_AtEnd(a, num, k, rec) == SubSeq(a, 1, num) \o <<rec>>

\* memmove(&nextchecks[i + 1], &nextchecks[i], ...) and the three assignments
InsertItem(a, num, k, rec) == SubSeq(a, 1, k) \o <<rec>> \o SubSeq(a, k + 1, num)

\* if (nextcheck_alloc == nextcheck_num) nextcheck_alloc += 64;
\* faulty variant: the capacity grows on every insertion
GrowAlloc_Always(alloc, num) == alloc + AllocStep
\* faulty variant: the capacity grows the first time only
GrowAlloc_FirstOnly(alloc, num) == IF alloc = num /\ alloc = 0 THEN alloc + AllocStep ELSE alloc
GrowAlloc(alloc, num) == IF alloc = num THEN alloc + AllocStep ELSE alloc

\* zbx_strdup(NULL, error_msg)
zbx_strdup(error_msg) == error_msg

\* the highest slot written by the memmove of line 103 (slots i+1..num) and
\* the assignments of lines 105-107 (slot i)
TopSlotWritten(k, num) == IF num > k THEN num ELSE k

\* the allocator calls and the array write of lines 96-107
AddAllocs(alloc, num, k) ==
    (IF GrowAlloc(alloc, num) # alloc THEN <<<<"zbx_realloc", 0>>>> ELSE <<>>)
        \o <<<<"write:nextchecks", TopSlotWritten(k, num)>>, <<"zbx_strdup", 0>>>>

\* the entries of l called name
CountEvents(l, name) == Cardinality({k \in 1..Len(l) : l[k][1] = name})

\* the state of the array after the call and the allocator calls made:
\* <<array, num, alloc, calls>>
AddResult(a, num, alloc, itemid, now, error_msg) ==
    IF MsgAbsent(error_msg) THEN <<a, num, alloc, <<>>>>
    ELSE
    LET k == get_nearestindex(a, num, itemid)
        rec == [itemid |-> itemid, now |-> now, error_msg |-> zbx_strdup(error_msg)]
    IN  IF ItemExists(a, num, k, itemid)
        THEN IF StoredIsOlder(a, k, now)
             THEN LET a1 == DeleteItem(a, num, k)
                      n1 == num - 1
                  IN  <<InsertItem(a1, n1, k, rec), n1 + 1, GrowAlloc(alloc, n1),
                        AddAllocs(alloc, n1, k)>>
             ELSE <<a, num, alloc, <<>>>>
        ELSE <<InsertItem(a, num, k, rec), num + 1, GrowAlloc(alloc, num),
               AddAllocs(alloc, num, k)>>

DCadd_nextcheck(itemid, now, error_msg) ==
    /\ pc = "idle"
    /\ LET r == AddResult(nextchecks, nextcheck_num, nextcheck_alloc,
                          itemid, now, error_msg)
       IN  /\ nextchecks' = r[1]
           /\ nextcheck_num' = r[2]
           /\ nextcheck_alloc' = r[3]
           /\ log' = r[4]
           /\ msgs_live' = msgs_live + CountEvents(r[4], "zbx_strdup")
                                     - CountEvents(r[4], "zbx_free:error_msg")
    /\ hist' = IF error_msg = NULL THEN hist
               ELSE Append(hist, [itemid |-> itemid, now |-> now, msg |-> error_msg])
    /\ last' = IF error_msg = NULL THEN "add_null" ELSE "add"
    /\ submitted' = <<>>
    /\ called' = itemid
    /\ UNCHANGED <<oracle, pc, flushLocals, reported>>

AddWithMessage ==
    \E itemid \in ItemIds, now \in Times, msg \in Msgs :
        /\ Len(hist) < MaxCalls
        /\ DCadd_nextcheck(itemid, now, msg)
        /\ msgs_live' - nextcheck_num' <= MaxLeaked

\* the itemid of the calls made without a message: one that the buffer may
\* or may not hold
NullCallIds == {200}

AddWithoutMessage ==
    \E itemid \in NullCallIds, now \in Times : DCadd_nextcheck(itemid, now, NULL)

(***************************************************************************)
(* DCclean_nextchecks: frees every error_msg and resets the count; the     *)
(* array and its capacity stay.                                            *)
(***************************************************************************)
\* for (i = 0; i < nextcheck_num; i++) zbx_free(nextchecks[i].error_msg);
CleanFrees(num) == [k \in 1..num |-> <<"zbx_free:error_msg", k - 1>>]

\* faulty variant: the count is not reset
DCclean_nextchecks_NoReset ==
    /\ msgs_live' = msgs_live - Len(CleanFrees(nextcheck_num))
    /\ UNCHANGED <<nextchecks, nextcheck_num, nextcheck_alloc>>

DCclean_nextchecks ==
    /\ msgs_live' = msgs_live - Len(CleanFrees(nextcheck_num))
    /\ nextchecks' = <<>>
    /\ nextcheck_num' = 0
    /\ UNCHANGED nextcheck_alloc

(***************************************************************************)
(* Collaborators of the flush (declared in db.h and dbcache.h).            *)
(***************************************************************************)
\* the ordered, duplicate-free trigger lists of at most MaxTriggers triggers
TriggerOrders ==
    UNION {{s \in [1..n -> TriggerIds] : \A a, b \in 1..n : a # b => s[a] # s[b]}
           : n \in 0..MaxTriggers}

\* DBbegin_multiple_update: "begin\n" under Oracle, nothing otherwise
DBbegin_multiple_update(offset) == IF oracle THEN offset + 6 ELSE offset

\* DBend_multiple_update: "end;\n" under Oracle, nothing otherwise
DBend_multiple_update(offset) == IF oracle THEN offset + 5 ELSE offset

\* DBexecute_overflowed_sql executes the sql gathered so far once it is
\* longer than the limit, and starts the next chunk
Overflowed(offset) == offset > MaxSqlSize

(***************************************************************************)
(* DCflush_nextchecks, step by step.                                       *)
(***************************************************************************)
\* faulty variant: no early exit
NothingToFlush_Never(num) == FALSE

\* if (0 == nextcheck_num) goto exit;
NothingToFlush(num) == num = 0

\* faulty variant: the block entered whatever the resolver returned
HaveTriggers_Always(order) == TRUE

\* if (0 != trigger_order.values_num)
HaveTriggers(order) == Len(order) # 0

\* faulty variant: any non-empty sql is executed
WorthExecuting_NonEmpty(offset) == offset > 0

\* if (sql_offset > 16)
WorthExecuting(offset) == offset > SqlBoilerplateMax

\* faulty variant: every statement executed as soon as it is appended
ExecutesInLoop_Always(offset) == TRUE

\* line 184: DBexecute_overflowed_sql(&sql, &sql_alloc, &sql_offset) executes
\* inside the loop only what has overflowed
ExecutesInLoop(offset) == Overflowed(offset)

\* faulty variant: DBexecute's result is handed back to the caller
ReportedToCaller_Rc(rc) == IF rc = 0 THEN "failure" ELSE "nothing"
\* what flush hands back to its caller when DBexecute has returned rc:
\* void DCflush_nextchecks(), and DBexecute("%s", sql) is a statement of its own
ReportedToCaller(rc) == "nothing"

\* TRIGGER_VALUE_UNKNOWN, the new value given to DBget_trigger_update_sql
NewValue == "TRIGGER_VALUE_UNKNOWN"

\* lines 143-148: the three arrays filled from slots 0..nextcheck_num-1
DrainedItemids(a, num) == [k \in 1..num |-> a[k].itemid]
\* faulty variant: the messages are copied in reverse order
DrainedErrors_Reversed(a, num) == [k \in 1..num |-> a[num + 1 - k].error_msg]
DrainedErrors(a, num) == [k \in 1..num |-> a[k].error_msg]

\* timespecs[i].sec = nextchecks[i].now; sec is the one field of the element
\* that the code assigns, and the one the model carries
DrainedTimespecs(a, num) == [k \in 1..num |-> [sec |-> a[k].now]]

\* faulty variant: the itemids array is not freed
ReleasedAfterResolve_Partial == <<"errors", "timespecs">>
\* lines 158-160: zbx_free(errors); zbx_free(timespecs); zbx_free(itemids);
ReleasedAfterResolve == <<"errors", "timespecs", "itemids">>

\* faulty variant: the messages are freed together with the array
MessagesReleasedAfterResolve_All(num) == CleanFrees(num)

\* zbx_free(errors) frees the array of pointers; errors[i] is the pointer kept
\* in nextchecks[i].error_msg, and no message is freed by lines 158-160
MessagesReleasedAfterResolve(num) == <<>>

Range(f) == {f[x] : x \in DOMAIN f}

\* faulty variant: a trigger whose statement was not appended ends the loop
LoopNext_StopsOnFail(k, n, ret) == IF ret = "FAIL" THEN n ELSE k + 1

\* for (i = 0; i < trigger_order.values_num; i++): the loop has no break and
\* no continue, whatever DBget_trigger_update_sql returned (ret)
LoopNext(k, n, ret) == k + 1

\* faulty variant: the buffer is emptied as soon as it has been copied
BufferKept_Drained ==
    /\ nextchecks' = <<>>
    /\ nextcheck_num' = 0
    /\ UNCHANGED nextcheck_alloc

\* lines 139-154 read nextchecks and nextcheck_num and write neither
BufferKept == UNCHANGED buffer

\* lines 134-154: the empty exit, or the three arrays filled from the buffer
\* and the two trigger collections created
FlushEnter ==
    /\ pc = "idle"
    /\ last' = "flush"
    /\ hist' = <<>>
    /\ submitted' = <<>>
    /\ reported' = "nothing"
    /\ called' = NoItem
    /\ UNCHANGED msgs_live
    /\ IF NothingToFlush(nextcheck_num)
       THEN /\ log' = <<>>
            /\ UNCHANGED <<buffer, oracle, pc, flushLocals>>
       ELSE /\ itemids' = DrainedItemids(nextchecks, nextcheck_num)
            /\ timespecs' = DrainedTimespecs(nextchecks, nextcheck_num)
            /\ errors' = DrainedErrors(nextchecks, nextcheck_num)
            /\ held' = {"itemids", "timespecs", "errors", "trigger_info", "trigger_order"}
            /\ log' = <<<<"zbx_malloc:itemids", nextcheck_num>>,
                        <<"zbx_malloc:timespecs", nextcheck_num>>,
                        <<"zbx_malloc:errors", nextcheck_num>>,
                        <<"zbx_hashset_create:trigger_info", 0>>,
                        <<"zbx_vector_ptr_create:trigger_order", 0>>>>
            /\ pc' = "resolve"
            /\ BufferKept
            /\ UNCHANGED <<oracle, trigger_order, i, sql_offset, sql_stmts>>

\* line 156: DCconfig_get_triggers_by_itemids
Resolve ==
    /\ pc = "resolve"
    /\ \E order \in TriggerOrders : trigger_order' = order
    /\ log' = Append(log, <<"DCconfig_get_triggers_by_itemids", Len(trigger_order')>>)
    /\ pc' = "free_arrays"
    /\ UNCHANGED <<buffer, oracle, itemids, timespecs, errors, i, sql_offset,
                   sql_stmts, held, hist, last, submitted, msgs_live,
                   reported, called>>

\* lines 158-162
FreeArrays ==
    /\ pc = "free_arrays"
    /\ held' = held \ Range(ReleasedAfterResolve)
    /\ log' = log \o [k \in 1..Len(ReleasedAfterResolve) |->
                        <<"zbx_free:" \o ReleasedAfterResolve[k], 0>>]
                   \o MessagesReleasedAfterResolve(nextcheck_num)
    /\ msgs_live' = msgs_live - Len(MessagesReleasedAfterResolve(nextcheck_num))
    /\ itemids' = <<>>
    /\ timespecs' = <<>>
    /\ errors' = <<>>
    /\ pc' = IF HaveTriggers(trigger_order) THEN "begin" ELSE "destroy"
    /\ UNCHANGED <<buffer, oracle, trigger_order, i, sql_offset, sql_stmts,
                   hist, last, submitted, reported, called>>

\* lines 164-171
BeginUpdate ==
    /\ pc = "begin"
    /\ held' = held \cup {"sql"}
    /\ sql_offset' = DBbegin_multiple_update(0)
    /\ sql_stmts' = <<>>
    /\ i' = 0
    /\ log' = log \o <<<<"zbx_malloc:sql", 0>>, <<"DBbegin_multiple_update", 0>>>>
    /\ pc' = "loop"
    /\ UNCHANGED <<buffer, oracle, itemids, timespecs, errors, trigger_order,
                   hist, last, submitted, msgs_live, reported, called>>

\* lines 175-187, DBget_trigger_update_sql returning SUCCEED with a statement
\* of len bytes
LoopAppend ==
    /\ pc = "loop"
    /\ i < Len(trigger_order)
    /\ \E len \in StmtLens :
        LET trigger == trigger_order[i + 1]
            offset == sql_offset + len + 2
            stmts == Append(sql_stmts, trigger)
            appended == Append(log, <<"DBget_trigger_update_sql:SUCCEED", trigger, NewValue>>)
            freed == <<"zbx_free:new_error", trigger>>
        IN  IF ExecutesInLoop(offset)
            THEN /\ submitted' = Append(submitted, stmts)
                 /\ sql_offset' = DBbegin_multiple_update(0)
                 /\ sql_stmts' = <<>>
                 /\ log' = appended \o <<<<"DBexecute_overflowed_sql:DBexecute", offset>>,
                                         freed>>
            ELSE /\ sql_offset' = offset
                 /\ sql_stmts' = stmts
                 /\ log' = Append(appended, freed)
                 /\ UNCHANGED submitted
    /\ i' = LoopNext(i, Len(trigger_order), "SUCCEED")
    /\ UNCHANGED <<buffer, oracle, pc, itemids, timespecs, errors, trigger_order,
                   held, hist, last, msgs_live, reported, called>>

\* lines 175-187, DBget_trigger_update_sql not returning SUCCEED
LoopSkip ==
    /\ pc = "loop"
    /\ i < Len(trigger_order)
    /\ log' = log \o <<<<"DBget_trigger_update_sql:FAIL", trigger_order[i + 1], NewValue>>,
                        <<"zbx_free:new_error", trigger_order[i + 1]>>>>
    /\ i' = LoopNext(i, Len(trigger_order), "FAIL")
    /\ UNCHANGED <<buffer, oracle, pc, itemids, timespecs, errors, trigger_order,
                   sql_offset, sql_stmts, held, hist, last, submitted, msgs_live,
                   reported, called>>

\* lines 190-197; DBexecute's result (rc) is not looked at
EndUpdate ==
    /\ pc = "loop"
    /\ i = Len(trigger_order)
    /\ LET offset == DBend_multiple_update(sql_offset)
           ended == log \o <<<<"DCfree_triggers", 0>>, <<"DBend_multiple_update", 0>>>>
       IN  /\ sql_offset' = offset
           /\ IF WorthExecuting(offset)
              THEN \E rc \in {0, 1} :
                    /\ submitted' = Append(submitted, sql_stmts)
                    /\ log' = ended \o <<<<"DBexecute", rc>>, <<"zbx_free:sql", 0>>>>
                    /\ reported' = ReportedToCaller(rc)
              ELSE /\ log' = Append(ended, <<"zbx_free:sql", 0>>)
                   /\ UNCHANGED <<submitted, reported>>
    /\ held' = held \ {"sql"}
    /\ pc' = "destroy"
    /\ UNCHANGED <<buffer, oracle, itemids, timespecs, errors, trigger_order, i,
                   sql_stmts, hist, last, msgs_live, called>>

\* lines 200-205
Destroy ==
    /\ pc = "destroy"
    /\ held' = held \ {"trigger_info", "trigger_order"}
    /\ DCclean_nextchecks
    /\ log' = log \o <<<<"zbx_hashset_destroy:trigger_info", 0>>,
                        <<"zbx_vector_ptr_destroy:trigger_order", 0>>,
                        <<"DCclean_nextchecks", 0>>>>
                   \o CleanFrees(nextcheck_num)
    /\ pc' = "idle"
    /\ trigger_order' = <<>>
    /\ i' = 0
    /\ sql_offset' = 0
    /\ sql_stmts' = <<>>
    /\ UNCHANGED <<oracle, itemids, timespecs, errors, hist, last, submitted,
                   reported, called>>

DCflush_nextchecks ==
    \/ FlushEnter
    \/ Resolve
    \/ FreeArrays
    \/ BeginUpdate
    \/ LoopAppend
    \/ LoopSkip
    \/ EndUpdate
    \/ Destroy

Init ==
    /\ nextchecks = <<>>
    /\ nextcheck_alloc = 0
    /\ nextcheck_num = 0
    /\ oracle \in BOOLEAN
    /\ pc = "idle"
    /\ itemids = <<>>
    /\ timespecs = <<>>
    /\ errors = <<>>
    /\ trigger_order = <<>>
    /\ i = 0
    /\ sql_offset = 0
    /\ sql_stmts = <<>>
    /\ held = {}
    /\ hist = <<>>
    /\ last = "none"
    /\ log = <<>>
    /\ submitted = <<>>
    /\ msgs_live = 0
    /\ reported = "nothing"
    /\ called = NoItem

Next == AddWithMessage \/ AddWithoutMessage \/ DCflush_nextchecks

Spec == Init /\ [][Next]_vars

(***************************************************************************)
(* The buffer near its capacity: the state left by AllocStep - 1 record    *)
(* calls for the checkIDs 1..AllocStep-1, one record short of the first    *)
(* allocation, from which the second zbx_realloc is two new checkIDs away. *)
(***************************************************************************)
Prefill == AllocStep - 1

\* the records of those calls, each made once with the same time and message
Filled == [k \in 1..Prefill |-> [itemid |-> k, now |-> 1000, error_msg |-> "timeout"]]

\* the checkIDs recorded near the capacity: the last buffered one and two new
FillIds == {Prefill, 100, 200}

InitFill ==
    /\ nextchecks = Filled
    /\ nextcheck_num = Prefill
    /\ nextcheck_alloc = AllocStep
    /\ oracle \in BOOLEAN
    /\ pc = "idle"
    /\ itemids = <<>>
    /\ timespecs = <<>>
    /\ errors = <<>>
    /\ trigger_order = <<>>
    /\ i = 0
    /\ sql_offset = 0
    /\ sql_stmts = <<>>
    /\ held = {}
    /\ hist = <<>>
    /\ last = "add"
    /\ log = AddAllocs(AllocStep, Prefill - 1, Prefill - 1)
    /\ submitted = <<>>
    /\ msgs_live = Prefill
    /\ reported = "nothing"
    /\ called = Prefill

AddNearCapacity ==
    \E itemid \in FillIds, now \in Times :
        /\ Len(hist) < MaxFillCalls
        /\ DCadd_nextcheck(itemid, now, "connection refused")
        /\ msgs_live' - nextcheck_num' <= MaxLeaked

NextFill == AddNearCapacity \/ AddWithoutMessage \/ DCflush_nextchecks

SpecFill == (Init \/ InitFill) /\ [][NextFill]_vars

(***************************************************************************)
(* Properties                                                              *)
(***************************************************************************)
Idle == pc = "idle"
LastOf(s) == s[Len(s)]
\* indices of the record calls for checkID c since flush was last entered
CallsFor(c) == {k \in 1..Len(hist) : hist[k].itemid = c}
\* a checkID recorded more than once since flush was last entered
RecordedTwice == \E a, b \in 1..Len(hist) : a # b /\ hist[a].itemid = hist[b].itemid
LogHas(name) == \E k \in 1..Len(log) : log[k][1] = name

\* C1: the buffer never holds two records with the same checkID, and neither
\* does the checkID array handed to the resolver.
Uniqueness ==
    /\ \A a, b \in 1..nextcheck_num :
          a # b => nextchecks[a].itemid # nextchecks[b].itemid
    /\ \A a, b \in 1..Len(itemids) : a # b => itemids[a] # itemids[b]

\* a checkID was recorded twice and two records are buffered
UniquenessWitness == Idle /\ last = "add" /\ RecordedTwice /\ nextcheck_num = 2

\* C2: slots 0..nextcheck_num-1 are strictly ascending by checkID in every
\* state, and so is the checkID array drained by the flush.
SortOrder ==
    /\ \A a \in 1..(nextcheck_num - 1) :
          nextchecks[a].itemid < nextchecks[a + 1].itemid
    /\ \A a \in 1..(Len(itemids) - 1) : itemids[a] < itemids[a + 1]

\* the last call replaced the older record of its checkID, which is not the
\* only record buffered
SortOrderWitness ==
    /\ Idle /\ last = "add" /\ Len(hist) = 3 /\ nextcheck_num = 2
    /\ \E k \in 1..2 : /\ hist[k].itemid = hist[3].itemid
                        /\ hist[k].now < hist[3].now
    /\ \E a \in 1..nextcheck_num :
          nextchecks[a] = [itemid |-> hist[3].itemid, now |-> hist[3].now,
                           error_msg |-> hist[3].msg]

\* C3: for every checkID c recorded (with a message) since the last flush,
\* the buffer holds exactly the (observedAt, message) of the earliest call
\* among those with the greatest observedAt for c; a checkID not recorded
\* has no record.  hist holds every call that carried a message, so the
\* sequences of calls with non-empty messages are among those covered.
LastWriterWins ==
    Idle =>
        \A c \in ItemIds :
            LET calls == CallsFor(c)
                held_c == {a \in 1..nextcheck_num : nextchecks[a].itemid = c}
            IN  IF calls = {} THEN held_c = {}
                ELSE LET maxAt == CHOOSE t \in {hist[k].now : k \in calls} :
                                     \A k \in calls : hist[k].now <= t
                         first == CHOOSE k \in calls :
                                     /\ hist[k].now = maxAt
                                     /\ \A j \in calls : hist[j].now = maxAt => k <= j
                     IN  /\ held_c # {}
                         /\ \A a \in held_c :
                               nextchecks[a] = [itemid |-> c, now |-> maxAt,
                                                error_msg |-> hist[first].msg]

\* the scenario (100, 1000, "timeout"), (200, 1000, "timeout"),
\* (100, 1005, "connection refused")
LastWriterWinsWitness ==
    /\ hist = <<[itemid |-> 100, now |-> 1000, msg |-> "timeout"],
                [itemid |-> 200, now |-> 1000, msg |-> "timeout"],
                [itemid |-> 100, now |-> 1005, msg |-> "connection refused"]>>
    /\ nextchecks = <<[itemid |-> 100, now |-> 1005, error_msg |-> "connection refused"],
                      [itemid |-> 200, now |-> 1000, error_msg |-> "timeout"]>>

\* the step is a record call whose message is the empty string
RecordsEmptyMessage == last' = "add" /\ hist' # hist /\ LastOf(hist').msg = ""

\* C4 as claimed: a record call whose message is the empty string leaves the
\* records and the count of the buffer unchanged.
EmptyMessageNoOp ==
    [][RecordsEmptyMessage => UNCHANGED <<nextchecks, nextcheck_num>>]_vars

\* C4 as amended: only an absent message makes the call a no-op.  A call with
\* the empty string is treated like any other message: it leaves the buffer
\* unchanged when a record of the same checkID with the same or a later
\* observedAt is stored; otherwise (checkID, observedAt, "") is stored, in
\* place of the older record (same count) or as a new record (count + 1).
EmptyMessageStored ==
    [][RecordsEmptyMessage =>
        LET call == LastOf(hist')
            same == {a \in 1..nextcheck_num : nextchecks[a].itemid = call.itemid}
        IN  IF \E a \in same : nextchecks[a].now >= call.now
            THEN UNCHANGED <<nextchecks, nextcheck_num>>
            ELSE /\ \E a \in 1..nextcheck_num' :
                      nextchecks'[a] = [itemid |-> call.itemid, now |-> call.now,
                                        error_msg |-> ""]
                 /\ nextcheck_num' = IF same = {} THEN nextcheck_num + 1
                                     ELSE nextcheck_num]_vars

\* the last call carried the empty string and its record is in the buffer
EmptyMessageStoredWitness ==
    /\ Idle /\ last = "add" /\ Len(hist) > 0
    /\ LastOf(hist).msg = ""
    /\ \E a \in 1..nextcheck_num :
          nextchecks[a] = [itemid |-> LastOf(hist).itemid, now |-> LastOf(hist).now,
                           error_msg |-> ""]

\* C5: a record call without a message (NULL) leaves records, count and
\* capacity unchanged and calls no allocator.
AbsentMessageNoOp ==
    [][last' = "add_null" =>
        /\ UNCHANGED <<nextchecks, nextcheck_num, nextcheck_alloc>>
        /\ log' = <<>>]_vars

\* a call without a message returned with two records buffered
AbsentMessageWitness == Idle /\ last = "add_null" /\ nextcheck_num = 2

StoreCalls == {"DBbegin_multiple_update", "DBget_trigger_update_sql:SUCCEED",
               "DBget_trigger_update_sql:FAIL", "DBexecute_overflowed_sql:DBexecute",
               "DBend_multiple_update", "DBexecute"}
Resolver == "DCconfig_get_triggers_by_itemids"

\* C6: a flush entered with an empty buffer returns at once: no resolver
\* call, no store call, no allocation, nothing held, the buffer unchanged.
FlushEmptyNoOp ==
    [][(Idle /\ nextcheck_num = 0 /\ last' = "flush") =>
        /\ pc' = "idle"
        /\ log' = <<>>
        /\ submitted' = <<>>
        /\ held' = {}
        /\ UNCHANGED <<nextchecks, nextcheck_num, nextcheck_alloc>>]_vars

\* a flush of the empty buffer has returned (after earlier use of the buffer)
FlushEmptyWitness ==
    Idle /\ last = "flush" /\ log = <<>> /\ nextcheck_num = 0 /\ nextcheck_alloc > 0

\* C7: whenever flush has returned the buffer holds no record, whatever the
\* resolver returned, whatever was appended and whatever DBexecute returned.
FlushEmpties ==
    (Idle /\ last = "flush") => (nextcheck_num = 0 /\ nextchecks = <<>>)

\* a flush whose submission failed has returned
FlushEmptiesWitness ==
    /\ Idle /\ last = "flush"
    /\ \E k \in 1..Len(log) : log[k] = <<"DBexecute", 0>>

\* the resolver returned no trigger in the running (or just returned) flush
ResolvedNothing == \E k \in 1..Len(log) : log[k] = <<Resolver, 0>>

\* C8: when the resolver returns no trigger for a non-empty buffer, the
\* flush makes no store call at all and submits nothing, and the buffer is
\* empty when it returns.
NoTriggerNoBatch ==
    ResolvedNothing =>
        /\ \A k \in 1..Len(log) : log[k][1] \notin StoreCalls
        /\ submitted = <<>>
        /\ "sql" \notin held
        /\ Idle => nextcheck_num = 0

\* such a flush has returned
NoTriggerWitness == Idle /\ last = "flush" /\ ResolvedNothing

\* trigger ids of the log entries called name, in order
RECURSIVE LogIds(_, _)
LogIds(l, name) ==
    IF l = <<>> THEN <<>>
    ELSE (IF Head(l)[1] = name THEN <<Head(l)[2]>> ELSE <<>>) \o LogIds(Tail(l), name)

RECURSIVE Flatten(_)
Flatten(ss) == IF ss = <<>> THEN <<>> ELSE Head(ss) \o Flatten(Tail(ss))

\* the triggers whose append succeeded, in order
Appended == LogIds(log, "DBget_trigger_update_sql:SUCCEED")
\* the batch was finalized (line 192) and the decision of line 194 taken
Finalized == pc = "destroy" /\ LogHas("DBend_multiple_update")
FinalExecuted == LogHas("DBexecute")
OverflowExecuted == LogHas("DBexecute_overflowed_sql:DBexecute")

\* C9 as claimed: in a flush with resolved triggers the final batch is
\* submitted iff at least one statement was appended, what is submitted are
\* exactly the statements of the triggers whose append succeeded, and a
\* batch of boilerplate only is never submitted.
SubmitIffAppended ==
    Finalized =>
        /\ FinalExecuted <=> Appended # <<>>
        /\ Flatten(submitted) = Appended
        /\ \A k \in 1..Len(submitted) : submitted[k] # <<>>

\* C9 as amended: the final batch is submitted iff it still holds at least
\* one statement, that is, one appended after the last execution by
\* DBexecute_overflowed_sql (with no such execution: iff at least one
\* statement was appended); the executions of the flush together carry
\* exactly the statements of the triggers whose append succeeded, in order,
\* and none of them is a batch of boilerplate only.
SubmitIffStatementLeft ==
    Finalized =>
        /\ FinalExecuted <=> sql_stmts # <<>>
        /\ ~OverflowExecuted => (FinalExecuted <=> Appended # <<>>)
        /\ Flatten(submitted) = Appended
        /\ \A k \in 1..Len(submitted) : submitted[k] # <<>>

\* two triggers, one skipped and one appended: exactly one statement submitted
SubmitWitness ==
    /\ Finalized
    /\ Len(trigger_order) = 2
    /\ LogHas("DBget_trigger_update_sql:FAIL")
    /\ Len(Appended) = 1
    /\ submitted = <<Appended>>
    /\ FinalExecuted

\* C10 as claimed: the store receives at most one submission per flush, it
\* carries every statement appended, and nothing is executed before the
\* batch is finalized.
OneBatchPerFlush ==
    /\ Len(submitted) <= 1
    /\ ~OverflowExecuted
    /\ Finalized /\ submitted # <<>> => submitted[1] = Appended

\* C10 as amended: after the batch is finalized the store receives at most
\* one submission.  Before that a statement is executed only by
\* DBexecute_overflowed_sql, and only once the sql gathered is longer than
\* ZBX_MAX_SQL_SIZE; as long as it is not, the flush makes at most one
\* submission, which carries every statement appended.  In every case each
\* appended statement has been executed exactly once when the batch is
\* finalized.
OneFinalBatch ==
    /\ Cardinality({k \in 1..Len(log) : log[k][1] = "DBexecute"}) <= 1
    /\ \A k \in 1..Len(log) :
          /\ log[k][1] = "DBexecute" =>
                \E j \in 1..(k - 1) : log[j][1] = "DBend_multiple_update"
          /\ log[k][1] = "DBexecute_overflowed_sql:DBexecute" => log[k][2] > MaxSqlSize
    /\ ~OverflowExecuted =>
          /\ Len(submitted) <= 1
          /\ Finalized /\ submitted # <<>> => submitted[1] = Appended
    /\ Finalized => Flatten(submitted) = Appended

\* two statements within the limit went to the store in one submission
OneFinalBatchWitness ==
    /\ Finalized
    /\ Len(Appended) = 2
    /\ submitted = <<Appended>>

\* the flush made last has returned and its final DBexecute failed
FlushFailed ==
    /\ Idle /\ last = "flush"
    /\ \E k \in 1..Len(log) : log[k] = <<"DBexecute", 0>>

\* C11 as stated: when the store fails the submission of the final batch the
\* caller of flush observes it: what flush hands back differs from what a
\* flush whose submission succeeded hands back.
SubmissionFailureReported == FlushFailed => reported # ReportedToCaller(1)

\* C11 as amended: flush hands nothing back to its caller, whether the
\* submission of the final batch failed or succeeded; after a failed
\* submission the caller finds what it finds after a successful one: nothing
\* reported and an empty buffer.
SubmissionFailureSilent ==
    (Idle /\ last = "flush") =>
        /\ reported = "nothing"
        /\ FlushFailed => (nextcheck_num = 0 /\ nextchecks = <<>>)

\* a flush that submitted one final batch, which the store failed, has returned
SubmissionFailureWitness ==
    FlushFailed /\ Len(submitted) = 1 /\ reported = "nothing" /\ nextcheck_num = 0

\* a store call has been made by the flush that is running
StoreCalled == pc # "idle" /\ \E k \in 1..Len(log) : log[k][1] \in StoreCalls

\* C12 as stated: at every store call of a flush, the final submission
\* included, the buffer already holds zero records.
DrainedBeforeSubmission == StoreCalled => nextcheck_num = 0

\* C12 as amended: the buffer keeps every record, unchanged, through the
\* whole flush, every store call and the final submission included; it is
\* emptied by the last step of flush only, after every store call.
DrainedAfterSubmission ==
    [][/\ pc # "idle" => (nextcheck_num > 0 /\ Len(nextchecks) = nextcheck_num)
       /\ pc' # "idle" => UNCHANGED buffer
       /\ (pc # "idle" /\ pc' = "idle") =>
             /\ nextcheck_num' = 0
             /\ \A k \in 1..Len(log') : log'[k][1] \in StoreCalls =>
                   \E j \in (k + 1)..Len(log') : log'[j][1] = "DCclean_nextchecks"]_vars

\* the final submission has failed and the buffer still holds its two records
DrainedAfterSubmissionWitness ==
    /\ pc = "destroy"
    /\ \E k \in 1..Len(log) : log[k] = <<"DBexecute", 0>>
    /\ nextcheck_num = 2

\* C13: when record replaces an entry by a strictly newer one the old
\* entry's message copy is released, so in every state the message copies
\* allocated and not released are exactly those of the buffered records, and
\* none is left once flush has returned.
MessagesAccounted ==
    /\ msgs_live = nextcheck_num
    /\ (Idle /\ last = "flush") => msgs_live = 0

\* the number of records the running (or just returned) flush was entered with
DrainedCount == IF log # <<>> /\ log[1][1] = "zbx_malloc:itemids" THEN log[1][2] ELSE 0
\* the message releases among the first n entries of the log
MessageFreesBefore(n) == {j \in 1..(n - 1) : log[j][1] = "zbx_free:error_msg"}

\* C14 as stated: every drained message is released after the resolver call
\* returns and before the write transaction is begun, hence before any store
\* call.
MessagesFreedAfterResolver ==
    last = "flush" =>
        \A k \in 1..Len(log) :
            (log[k][1] = "zbx_malloc:sql" \/ log[k][1] \in StoreCalls) =>
                Cardinality(MessageFreesBefore(k)) = DrainedCount

\* C14 as amended: what is freed right after the resolver call, before any
\* store call and whether or not a trigger was resolved, is the array of
\* message pointers; every message stays allocated through all store calls
\* and is released by DCclean_nextchecks, the last step of flush, once each.
MessagesFreedAtReturn ==
    last = "flush" =>
        /\ \A k \in 1..Len(log) :
              /\ (log[k][1] = Resolver /\ k < Len(log)) => log[k + 1][1] = "zbx_free:errors"
              /\ log[k][1] \in StoreCalls =>
                    /\ MessageFreesBefore(k) = {}
                    /\ \E j \in 1..(k - 1) : log[j][1] = "zbx_free:errors"
              /\ log[k][1] = "zbx_free:error_msg" =>
                    \E j \in 1..(k - 1) : log[j][1] = "DCclean_nextchecks"
        /\ (Idle /\ log # <<>>) =>
              {log[j][2] : j \in MessageFreesBefore(Len(log) + 1)} = 0..(DrainedCount - 1)
        /\ (Idle /\ log # <<>>) =>
              Cardinality(MessageFreesBefore(Len(log) + 1)) = DrainedCount

\* a flush of two records that made store calls has returned
MessagesFreedWitness ==
    /\ Idle /\ last = "flush"
    /\ DrainedCount = 2
    /\ LogHas("DBbegin_multiple_update")
    /\ Cardinality(MessageFreesBefore(Len(log) + 1)) = 2

\* the append attempts and the releases of computed error annotations made
\* by the running flush, in the order made
AttemptNames == {"DBget_trigger_update_sql:SUCCEED", "DBget_trigger_update_sql:FAIL"}
PerTrigger ==
    SelectSeq(log, LAMBDA e : e[1] \in AttemptNames \/ e[1] = "zbx_free:new_error")

\* C15: the triggers are attempted one by one in the resolver's order; each
\* attempt is made once, with TRIGGER_VALUE_UNKNOWN as the new value, and is
\* followed by one release of that trigger's new_error, appended or not; when
\* the batch is finalized every resolved trigger has been attempted.
BestEffortPerTrigger ==
    pc \in {"loop", "destroy"} =>
        LET made == PerTrigger
        IN  /\ Len(made) = 2 * i
            /\ \A k \in 1..i :
                  /\ made[2 * k - 1][1] \in AttemptNames
                  /\ made[2 * k - 1][2] = trigger_order[k]
                  /\ made[2 * k - 1][3] = "TRIGGER_VALUE_UNKNOWN"
                  /\ made[2 * k] = <<"zbx_free:new_error", trigger_order[k]>>
            /\ pc = "destroy" => i = Len(trigger_order)

\* two triggers were resolved, the first was skipped, the second appended
BestEffortWitness ==
    /\ Finalized
    /\ Len(trigger_order) = 2
    /\ PerTrigger[1][1] = "DBget_trigger_update_sql:FAIL"
    /\ Appended = <<trigger_order[2]>>

\* the resolver calls made by the running (or just returned) flush
ResolverCalls == CountEvents(log, Resolver)

\* C16: a flush of a non-empty buffer calls the resolver exactly once, with
\* three arrays as long as the buffer whose entries at each index are the
\* checkID, the time (in seconds) and the message of the buffer record at
\* that index; when the flush has returned nothing is left in the buffer to
\* be delivered by a later flush.
IndexAlignedBatch ==
    /\ pc \in {"resolve", "free_arrays"} =>
          /\ nextcheck_num > 0
          /\ Len(itemids) = nextcheck_num
          /\ Len(timespecs) = nextcheck_num
          /\ Len(errors) = nextcheck_num
          /\ \A k \in 1..nextcheck_num :
                /\ itemids[k] = nextchecks[k].itemid
                /\ timespecs[k].sec = nextchecks[k].now
                /\ errors[k] = nextchecks[k].error_msg
    /\ last = "flush" =>
          /\ ResolverCalls = (IF pc = "resolve" \/ log = <<>> THEN 0 ELSE 1)
          /\ Idle => nextcheck_num = 0

\* the resolver has been called with three records carrying different messages
IndexAlignedWitness ==
    /\ pc = "free_arrays"
    /\ Len(itemids) = 3
    /\ errors[1] # errors[2] /\ errors[2] # errors[3] /\ errors[1] # errors[3]
    /\ timespecs[1].sec # timespecs[2].sec

\* C17: the capacity is zero as long as no record call has stored an entry,
\* it never decreases, no step of flush changes it, and a record call
\* changes it only when the count equals the capacity at insertion time
\* (after the removal of the entry it replaces, if any), by one growth step.
CapacityLifecycle ==
    [][/\ nextcheck_alloc' >= nextcheck_alloc
       /\ (nextcheck_alloc = 0 /\ nextcheck_num' = 0) => nextcheck_alloc' = 0
       /\ nextcheck_alloc = 0 => nextcheck_num = 0
       /\ (pc # "idle" \/ last' = "flush") => nextcheck_alloc' = nextcheck_alloc
       /\ nextcheck_alloc' # nextcheck_alloc =>
             /\ last' = "add"
             /\ nextcheck_num' - 1 = nextcheck_alloc
             /\ nextcheck_alloc' = nextcheck_alloc + 64
       /\ (last' = "add" /\ nextcheck_num' = nextcheck_num + 1
              /\ nextcheck_num = nextcheck_alloc) =>
             nextcheck_alloc' = nextcheck_alloc + 64]_vars

\* the capacity has grown a second time and a flush has since returned
CapacityWitness ==
    Idle /\ last = "flush" /\ log # <<>> /\ nextcheck_alloc = 128 /\ nextcheck_num = 0

\* C18: in every state 0 <= count <= capacity and the array holds count
\* records; every slot a record call has written or shifted into lies below
\* the capacity, on the replacement path too.
BoundsInvariant ==
    /\ 0 <= nextcheck_num
    /\ nextcheck_num <= nextcheck_alloc
    /\ Len(nextchecks) = nextcheck_num
    /\ last = "add" =>
          \A k \in 1..Len(log) :
              log[k][1] = "write:nextchecks" =>
                  (0 <= log[k][2] /\ log[k][2] < nextcheck_alloc)

\* the buffer is full (count = capacity = 64) and its last record has just
\* been replaced: deleted, then written again into the last slot
BoundsWitness ==
    /\ Idle /\ last = "add"
    /\ nextcheck_num = 64 /\ nextcheck_alloc = 64
    /\ Len(hist) = 2 /\ hist[1].itemid = 100
    /\ hist[2].itemid = 63 /\ hist[2].now = 1005
    /\ log[1] = <<"write:nextchecks", 63>>
    /\ msgs_live = nextcheck_num + 1

\* the records of a for checkIDs other than c, in their order
OthersOf(a, c) == SelectSeq(a, LAMBDA r : r.itemid # c)
Present(a, c) == \E k \in 1..Len(a) : a[k].itemid = c
\* the step is a record call (for the checkID called')
RecordStep == pc = "idle" /\ last' \in {"add", "add_null"}

\* C19 as stated: a record call for checkID c leaves the records of the other
\* checkIDs and their order as they are; the count grows by one when c was
\* absent and stays the same when c was present.
RecordTouchesOwnKey ==
    [][RecordStep =>
          /\ OthersOf(nextchecks', called') = OthersOf(nextchecks, called')
          /\ nextcheck_num' = (IF Present(nextchecks, called')
                               THEN nextcheck_num ELSE nextcheck_num + 1)]_vars

\* C19 as amended: the count grows by one only when c was absent and the call
\* carries a message; a call without a message leaves the count as it is,
\* c absent or not.  The records of the other checkIDs are left as they are
\* by every record call.
RecordTouchesOwnKeyWithMessage ==
    [][RecordStep =>
          /\ OthersOf(nextchecks', called') = OthersOf(nextchecks, called')
          /\ nextcheck_num' = (IF Present(nextchecks, called') \/ last' = "add_null"
                               THEN nextcheck_num ELSE nextcheck_num + 1)
          /\ Present(nextchecks, called') => Present(nextchecks', called')]_vars

\* the second of two records has been replaced by a newer one
RecordTouchesOwnKeyWitness ==
    /\ Idle /\ last = "add" /\ called = 200
    /\ nextcheck_num = 2
    /\ Len(hist) = 3 /\ hist[1].itemid = 100
    /\ hist[2].itemid = 200 /\ hist[2].now = 1000
    /\ hist[3].itemid = 200 /\ hist[3].now = 1005
    /\ nextchecks[1].itemid = 100 /\ nextchecks[2].now = 1005

\* the resources a flush acquires: <<resource, acquiring call, releasing call>>
FlushResources ==
    {<<"itemids", "zbx_malloc:itemids", "zbx_free:itemids">>,
     <<"timespecs", "zbx_malloc:timespecs", "zbx_free:timespecs">>,
     <<"errors", "zbx_malloc:errors", "zbx_free:errors">>,
     <<"trigger_info", "zbx_hashset_create:trigger_info", "zbx_hashset_destroy:trigger_info">>,
     <<"trigger_order", "zbx_vector_ptr_create:trigger_order",
       "zbx_vector_ptr_destroy:trigger_order">>,
     <<"sql", "zbx_malloc:sql", "zbx_free:sql">>}
EventsAt(name) == {k \in 1..Len(log) : log[k][1] = name}

\* C20: on every path through flush each resource is acquired at most once,
\* released only after it was acquired and at most once, held exactly from
\* its acquisition to its release, and released when flush returns; no
\* message is freed twice, and none before the resolver call has returned.
ResourceCleanup ==
    last = "flush" =>
        /\ \A r \in FlushResources :
              LET acquired == EventsAt(r[2])
                  released == EventsAt(r[3])
              IN  /\ Cardinality(acquired) <= 1
                  /\ Cardinality(released) <= Cardinality(acquired)
                  /\ \A k \in released : \E j \in acquired : j < k
                  /\ r[1] \in held <=> (acquired # {} /\ released = {})
                  /\ Idle => Cardinality(released) = Cardinality(acquired)
        /\ held \subseteq {r[1] : r \in FlushResources}
        /\ Idle => held = {}
        /\ LET freed == EventsAt("zbx_free:error_msg")
               resolved == EventsAt(Resolver)
           IN  /\ \A a, b \in freed : a # b => log[a][2] # log[b][2]
               /\ \A k \in freed : \E j \in resolved : j < k
               /\ pc = "resolve" => freed = {}

\* a flush that took the longest path, submitting a final batch, has
\* returned with all six resources released
ResourceCleanupWitness ==
    /\ Idle /\ last = "flush"
    /\ LogHas("DBexecute")
    /\ \A r \in FlushResources : EventsAt(r[2]) # {} /\ EventsAt(r[3]) # {}
    /\ Cardinality(EventsAt("zbx_free:error_msg")) = 3

=============================================================================
